---- MODULE Spec2Model ----
(***************************************************************************)
(* Model of the Tags namespace of src/libs/tags.ts: chainable tag          *)
(* functions for template literals (identity, paragraph, fold, flush,      *)
(* outdent, indent, wrap, numbering) and the make-chainable combinator.    *)
(*                                                                         *)
(* A string is a sequence of one-character strings; a template is the     *)
(* pair of its string literals and its substitution values.               *)
(***************************************************************************)
EXTENDS Integers, Sequences, FiniteSets, TLC

VARIABLES
  callee,   \* chaining: the function value of the last call
  arg,      \* chaining: the first argument of the last call
  vals,     \* chaining: the rest arguments of the last call
  result,   \* chaining: what the last call returned
  input,    \* chaining: the text or template the transforms are applied to
  tpl,      \* identity: the template identity is applied to
  out,      \* identity: the string identity returned
  wtext,    \* wrap: the text wrap(width) is applied to
  width,    \* wrap: the parameter n of wrap(n)
  wpc,      \* wrap: where the call of wrap(n) stands
  pending,  \* wrap: the normalized lines the reduction has not seen yet
  previous_indentation,  \* wrap: indentation of the line before
  current_indentation,   \* wrap: indentation of the line just reduced
  logical,  \* wrap: the logical lines; in the split phase, those left,
            \*       the first being the argument of the current call of split
  depth,    \* wrap: recursion depth of the current call of split
  caller,   \* wrap: the argument of the call of split that made this one
  physical, \* wrap: the physical lines returned so far
  wout,     \* wrap: the string wrap(n) returned
  given,    \* numbering: the options as the caller wrote them
  options,  \* numbering: the options object, shared with the counter
  ntext,    \* numbering: the text the numbering tag is applied to
  npc,      \* numbering: where the call of the numbering tag stands
  nlines,   \* numbering: the normalized lines of the text
  index,    \* numbering: the counter object
  fields,   \* numbering: what padder returned for each line so far
  numbered, \* numbering: the numbered lines so far
  nout,     \* numbering: the string the numbering tag returned
  ttext,    \* line tags: the text the caller starts from
  tapplied, \* line tags: the functions applied so far, innermost first
  tbefore,  \* line tags: the argument of the last call
  tafter,   \* line tags: what the last call returned
  earlier,  \* numbering: the pad width and the line count of the call before
  rn,       \* roman: the number the roman schemes are applied to
  rupper,   \* roman: what the upper-case scheme returned for it
  rlower,   \* roman: what the lower-case scheme returned for it
  rlongest, \* roman: the greatest length of a numeral from 0 to the number
  cops,     \* counter: the getters read on the counter since it was built
  cread     \* counter: what the last getter returned

chain_vars == <<callee, arg, vals, result, input>>
identity_vars == <<tpl, out>>
wrap_vars == <<wtext, width, wpc, pending, previous_indentation,
               current_indentation, logical, depth, caller, physical, wout>>
numbering_vars == <<given, earlier, options, ntext, npc, nlines, index, fields, numbered, nout>>
tags_vars == <<ttext, tapplied, tbefore, tafter>>
roman_vars == <<rn, rupper, rlower, rlongest>>
counter_vars == <<cops, cread>>
vars == <<chain_vars, identity_vars, wrap_vars, numbering_vars, tags_vars,
          roman_vars, counter_vars>>

(***************************************************************************)
(* Bounds of the model.                                                    *)
(***************************************************************************)
MaxText == 2
MaxSegs == 3
MaxChain == 2
MaxWrapText == 6
MaxWidth == 4
MaxStack == 8
MaxFrom == 3
MaxLines == 10
MaxLineText == 5
MaxIndent == 1
MaxRoman == 4000
MaxOps == 4

\* the characters input texts are made of
Chars == {" ", "a", "\n"}

\* all strings of at most n characters
Texts(n) == UNION {[1..k -> Chars] : k \in 0..n}

\* the pieces (string literals, values) templates are made of
Pieces == {<<>>} \cup {<<c>> : c \in Chars}

(***************************************************************************)
(* Host string primitives, as the code uses them.                          *)
(***************************************************************************)
\* the regular expression class \s
IsSpace(c) == c \in {" ", "\t", "\n", "\r"}

\* String.prototype.slice(from) / substr(from), from >= 0
Slice(s, from) == IF from >= Len(s) THEN <<>> ELSE SubSeq(s, from + 1, Len(s))

\* String.prototype.substr(0, n), n >= 0
Substr0(s, n) == IF n >= Len(s) THEN s ELSE SubSeq(s, 1, n)

\* " ".repeat(n)
Spaces(n) == [i \in 1..n |-> " "]

\* number of leading characters of s that satisfy the class
RECURSIVE LeadingWhile(_, _)
LeadingWhile(s, space_only) ==
  IF s = <<>> THEN 0
  ELSE IF (IF space_only THEN s[1] = " " ELSE IsSpace(s[1]))
       THEN 1 + LeadingWhile(Tail(s), space_only)
       ELSE 0

\* line.replace(/\s*$/, "")
RECURSIVE TrimEnd(_)
TrimEnd(s) ==
  IF s = <<>> THEN <<>>
  ELSE IF IsSpace(s[Len(s)]) THEN TrimEnd(SubSeq(s, 1, Len(s) - 1))
       ELSE s

\* String.prototype.trim()
Trim(s) == TrimEnd(Slice(s, LeadingWhile(s, FALSE)))

\* Array.prototype.join(sep)
RECURSIVE Join(_, _)
Join(lines, sep) ==
  IF lines = <<>> THEN <<>>
  ELSE IF Len(lines) = 1 THEN lines[1]
       ELSE lines[1] \o sep \o Join(Tail(lines), sep)

\* String.prototype.split("\n"): always at least one (possibly empty) piece
RECURSIVE SplitNewline(_)
SplitNewline(s) ==
  IF \A i \in 1..Len(s) : s[i] # "\n" THEN <<s>>
  ELSE LET i == CHOOSE k \in 1..Len(s) :
                  s[k] = "\n" /\ \A j \in 1..(k - 1) : s[j] # "\n"
       IN <<SubSeq(s, 1, i - 1)>> \o SplitNewline(SubSeq(s, i + 1, Len(s)))

\* Array.prototype.filter, on a sequence of strings, keeping non-blank ones
RECURSIVE NonBlank(_)
NonBlank(lines) ==
  IF lines = <<>> THEN <<>>
  ELSE (IF Trim(lines[1]) # <<>> THEN <<lines[1]>> ELSE <<>>)
       \o NonBlank(Tail(lines))

(***************************************************************************)
(* Line model.                                                             *)
(***************************************************************************)
\* line.replace(/(\S)\s+/g, "$1 "): a run of white space that follows a
\* non-blank character becomes one space; leading white space is kept
RECURSIVE FoldSpaces(_, _)
FoldSpaces(s, seen) ==
  IF s = <<>> THEN <<>>
  ELSE IF ~IsSpace(s[1]) THEN <<s[1]>> \o FoldSpaces(Tail(s), TRUE)
       ELSE IF ~seen THEN <<s[1]>> \o FoldSpaces(Tail(s), FALSE)
            ELSE LET run == LeadingWhile(s, FALSE)
                 IN <<" ">> \o FoldSpaces(Slice(s, run), TRUE)

\* the reduce step of text-lines: keep a line that is not empty, or that
\* follows a non-blank line of the mapped source array
\* the test of the reduction, also keeping a blank first line
KeepLine_or_first(source, i) ==
  source[i] # <<>> \/ i = 1 \/ Trim(source[i - 1]) # <<>>

KeepLine(source, i) ==
  source[i] # <<>> \/ (i > 1 /\ Trim(source[i - 1]) # <<>>)

RECURSIVE KeptFrom(_, _)
KeptFrom(source, i) ==
  IF i > Len(source) THEN <<>>
  ELSE (IF KeepLine(source, i) THEN <<source[i]>> ELSE <<>>)
       \o KeptFrom(source, i + 1)

text_lines(text) ==
  LET split == SplitNewline(text)
      source == [i \in 1..Len(split) |-> FoldSpaces(TrimEnd(split[i]), FALSE)]
  IN KeptFrom(source, 1)

\* the start value of the reduction in min-indentation
Infinity == 1000000

RECURSIVE MinOf(_, _)
MinOf(lines, min) ==
  IF lines = <<>> THEN min
  ELSE LET indentation == LeadingWhile(lines[1], TRUE)
       IN MinOf(Tail(lines), IF indentation < min THEN indentation ELSE min)

\* min-indentation, taking the blank lines into account as well
min_indentation_all_lines(lines) == MinOf(lines, Infinity)

min_indentation(lines) == MinOf(NonBlank(lines), Infinity)

(***************************************************************************)
(* Values: strings, undefined, functions, template string arrays.          *)
(***************************************************************************)
Str(s) == [t |-> "string", s |-> s]

Undefined == [t |-> "undefined"]

\* the value a throwing call yields
TypeError == [t |-> "TypeError"]

\* a string literal with its escape sequences unprocessed
RECURSIVE RawOf(_)
RawOf(s) ==
  IF s = <<>> THEN <<>>
  ELSE (IF s[1] = "\n" THEN <<"\\", "n">> ELSE <<s[1]>>) \o RawOf(Tail(s))

\* a template string array: the literals and their raw property
Template(strings) ==
  [t |-> "object", strings |-> strings,
   raw |-> [i \in 1..Len(strings) |-> RawOf(strings[i])]]

\* the text Function.prototype.toString gives for a function value
function_source == <<"f", "u", "n", "c", "t", "i", "o", "n">>

\* printableｰvalue.toString(), as a template literal `${value}` applies it
to_string(v) ==
  CASE v.t = "string" -> v.s
    [] v.t = "undefined" -> <<"u", "n", "d", "e", "f", "i", "n", "e", "d">>
    [] OTHER -> function_source

\* values[i] of a JavaScript array: undefined past its end
ValueAt(values, i) == IF i <= Len(values) THEN values[i] ELSE Undefined

(***************************************************************************)
(* Tag functions.                                                          *)
(***************************************************************************)
\* strings.reduce((text, s, i) => `${text}${s}${values[i]}`, "")
RECURSIVE Zip(_, _, _)
Zip(strings, values, i) ==
  IF i > Len(strings) THEN <<>>
  ELSE strings[i] \o to_string(ValueAt(values, i)) \o Zip(strings, values, i + 1)

\* identity without values.push(""): the last literal has no value
identity_no_push(strings, values) == Zip(strings, values, 1)

identity(strings, values) == Zip(strings, Append(values, Str(<<>>)), 1)

\* String.raw: the raw literals with the values that exist in between
RECURSIVE RawZip(_, _, _)
RawZip(raws, values, i) ==
  IF i > Len(raws) THEN <<>>
  ELSE raws[i]
       \o (IF i < Len(raws) /\ i <= Len(values) THEN to_string(values[i]) ELSE <<>>)
       \o RawZip(raws, values, i + 1)

\* paragraph, joining every normalized line, blank ones included
paragraph_all_lines(strings, values) ==
  Join(text_lines(identity(strings, values)), <<"\n", "\n">>)

paragraph(strings, values) ==
  Join(NonBlank(text_lines(identity(strings, values))), <<"\n", "\n">>)

fold(strings, values) == Join(text_lines(identity(strings, values)), <<>>)

flush(strings, values) ==
  LET lines == text_lines(identity(strings, values))
  IN Join([i \in 1..Len(lines) |-> Trim(lines[i])], <<"\n">>)

\* outdent, removing one space at most
outdent_one_space(strings, values) ==
  LET lines == text_lines(identity(strings, values))
      indentation == IF min_indentation(lines) < 1 THEN 0 ELSE 1
  IN Join([i \in 1..Len(lines) |-> Slice(lines[i], indentation)], <<"\n">>)

outdent(strings, values) ==
  LET lines == text_lines(identity(strings, values))
      indentation == min_indentation(lines)
  IN Join([i \in 1..Len(lines) |-> Slice(lines[i], indentation)], <<"\n">>)

\* indent, removing -n characters whatever the indentation of the lines
indent_unbounded(n, strings, values) ==
  LET lines == text_lines(identity(strings, values))
  IN IF n >= 0
     THEN Join([i \in 1..Len(lines) |-> Spaces(n) \o lines[i]], <<"\n">>)
     ELSE Join([i \in 1..Len(lines) |-> Slice(lines[i], -n)], <<"\n">>)

indent(n, strings, values) ==
  LET lines == text_lines(identity(strings, values))
  IN IF n >= 0
     THEN Join([i \in 1..Len(lines) |-> Spaces(n) \o lines[i]], <<"\n">>)
     ELSE LET m == min_indentation(lines)
              indentation == IF -n < m THEN -n ELSE m
          IN Join([i \in 1..Len(lines) |-> Slice(lines[i], indentation)], <<"\n">>)

(***************************************************************************)
(* The chaining combinator.                                                *)
(***************************************************************************)
\* a library tag: its function name and, for indent, its parameter
Tag(name, n) == [name |-> name, n |-> n]

\* the name rename() gives the tag function
tag_name(tag) ==
  IF tag.name = "indent" THEN "indent(" \o ToString(tag.n) \o ")" ELSE tag.name

\* the body of the tag function make-chainable wraps
tag_body(tag, strings, values) ==
  CASE tag.name = "identity" -> identity(strings.strings, values)
    [] tag.name = "paragraph" -> paragraph(strings.strings, values)
    [] tag.name = "fold" -> fold(strings.strings, values)
    [] tag.name = "flush" -> flush(strings.strings, values)
    [] tag.name = "outdent" -> outdent(strings.strings, values)
    [] tag.name = "indent" -> indent(tag.n, strings.strings, values)

\* export const raw = rename(String.raw, "raw"): not chainable
raw == [t |-> "function", kind |-> "raw", name |-> "raw"]

\* String.raw(strings, ...values): throws unless strings has a raw property
raw_call(x, values) ==
  IF x.t = "object" THEN Str(RawZip(x.raw, values, 1)) ELSE TypeError

\* the function make-chainable returns, renamed to the tag's name
make_chainable(tag) ==
  [t |-> "function", kind |-> "chainable", tag |-> tag, name |-> tag_name(tag)]

\* the template array of tag`${value}`: two empty literals around the value
AroundValue == Template(<<<<>>, <<>>>>)

RECURSIVE Call(_, _, _)

\* composite, returning the inner tag's result without applying the outer tag
composite_inner_only(tag, inner, s, v) == Call(inner, s, v)

\* composite, applying the outer tag to the input and the inner tag to
\* what the outer tag returned
composite_outer_first(tag, inner, s, v) ==
  Call(inner,
       Str(tag_body(tag, IF s.t = "object" THEN s ELSE AroundValue,
                    IF s.t = "object" THEN v ELSE <<s>>)),
       <<>>)

\* function composite(s, ...v): tag`${inner(s, ...v)}`
composite(tag, inner, s, v) ==
  LET r == Call(inner, s, v)
  IN IF r.t = "TypeError" THEN r ELSE Str(tag_body(tag, AroundValue, <<r>>))

\* chainable, without its string case: a string has no reduce method
chainable_no_string_case(f, x, values) ==
  CASE x.t = "function" ->
         [t |-> "function", kind |-> "composite", tag |-> f.tag,
          name |-> f.name \o "(" \o x.name \o ")", inner |-> x]
    [] x.t = "string" -> TypeError
    [] OTHER -> Str(tag_body(f.tag, x, values))

\* chainable, naming the composite after the inner function only
chainable_inner_name(f, x, values) ==
  CASE x.t = "function" ->
         [t |-> "function", kind |-> "composite", tag |-> f.tag,
          name |-> x.name, inner |-> x]
    [] x.t = "string" -> Str(tag_body(f.tag, AroundValue, <<x>>))
    [] OTHER -> Str(tag_body(f.tag, x, values))

\* function chainable(stringsｰorｰtag, ...values): switch on typeof
chainable(f, x, values) ==
  CASE x.t = "function" ->
         [t |-> "function", kind |-> "composite", tag |-> f.tag,
          name |-> f.name \o "(" \o x.name \o ")", inner |-> x]
    [] x.t = "string" -> Str(tag_body(f.tag, AroundValue, <<x>>))
    [] OTHER -> Str(tag_body(f.tag, x, values))

\* calling the function value f with first argument x and rest arguments
Call(f, x, values) ==
  CASE f.kind = "chainable" -> chainable(f, x, values)
    [] f.kind = "composite" -> composite(f.tag, f.inner, x, values)
    [] OTHER -> raw_call(x, values)

\* nesting depth of a function value
RECURSIVE Depth(_)
Depth(f) == IF f.kind = "composite" THEN 1 + Depth(f.inner) ELSE 0

\* the chainable tags of the library the model composes
Chainables ==
  {make_chainable(Tag(n, 0)) :
     n \in {"identity", "paragraph", "fold", "flush", "outdent"}}
    \cup {make_chainable(Tag("indent", 10))}

\* the transforms of the library: the chainable tags and raw
Transforms == Chainables \cup {raw}

(***************************************************************************)
(* Specification of chaining: transforms are composed and called.          *)
(***************************************************************************)
\* a call not made yet
NoCall == [t |-> "none"]

\* the plain strings a transform is called on
PlainInputs == {[x |-> Str(s), values |-> <<>>] : s \in Texts(MaxText)}

\* the template literals a transform is called on: one literal, or two
\* literals around one value
TemplateInputs ==
  {[x |-> Template(<<p>>), values |-> <<>>] : p \in Pieces}
    \cup {[x |-> Template(<<p, q>>), values |-> <<Str(v)>>] :
            p \in Pieces, q \in Pieces, v \in Pieces}

IdleChain ==
  /\ callee = NoCall /\ arg = NoCall /\ vals = <<>>
  /\ result = NoCall /\ input = NoCall

IdleIdentity == tpl = NoCall /\ out = NoCall

IdleWrap ==
  /\ wtext = <<>> /\ width = 0 /\ wpc = "idle" /\ pending = <<>>
  /\ previous_indentation = -1 /\ current_indentation = -1
  /\ logical = <<>> /\ depth = 0 /\ caller = NoCall
  /\ physical = <<>> /\ wout = NoCall

IdleNumbering ==
  /\ given = <<>> /\ earlier = NoCall
  /\ options = <<>> /\ ntext = <<>> /\ npc = "idle" /\ nlines = <<>>
  /\ index = NoCall /\ fields = <<>> /\ numbered = <<>> /\ nout = NoCall

IdleTags ==
  ttext = <<>> /\ tapplied = <<>> /\ tbefore = NoCall /\ tafter = NoCall

IdleRoman == rn = 0 /\ rupper = NoCall /\ rlower = NoCall /\ rlongest = 0

IdleCounter == cops = <<>> /\ cread = NoCall

\* the transform the program holds: the last function value obtained
Current == IF result.t = "function" THEN result ELSE callee

InitChain ==
  /\ callee \in Transforms
  /\ arg = NoCall /\ vals = <<>> /\ result = NoCall
  /\ input \in PlainInputs \cup TemplateInputs
  /\ IdleIdentity /\ IdleWrap /\ IdleNumbering /\ IdleTags /\ IdleRoman /\ IdleCounter

\* outer(current): a chainable tag is called with the current transform
Compose(outer) ==
  /\ result.t \in {"none", "function"}
  /\ Depth(Current) < MaxChain
  /\ callee' = outer /\ arg' = Current /\ vals' = <<>>
  /\ result' = Call(outer, Current, <<>>)
  /\ UNCHANGED <<input, identity_vars, wrap_vars, numbering_vars, tags_vars,
                 roman_vars, counter_vars>>

\* current(t): the current transform is called with a transform
ChainOn(t) ==
  /\ result.t \in {"none", "function"}
  /\ Depth(Current) < MaxChain
  /\ callee' = Current /\ arg' = t /\ vals' = <<>>
  /\ result' = Call(Current, t, <<>>)
  /\ UNCHANGED <<input, identity_vars, wrap_vars, numbering_vars, tags_vars,
                 roman_vars, counter_vars>>

\* current`...` or current("..."): the current transform is applied
Invoke ==
  /\ result.t \in {"none", "function"}
  /\ callee' = Current /\ arg' = input.x /\ vals' = input.values
  /\ result' = Call(Current, input.x, input.values)
  /\ UNCHANGED <<input, identity_vars, wrap_vars, numbering_vars, tags_vars,
                 roman_vars, counter_vars>>

NextChain ==
  \/ \E outer \in Chainables : Compose(outer)
  \/ \E t \in Transforms : ChainOn(t)
  \/ Invoke

SpecChain == InitChain /\ [][NextChain]_vars

(***************************************************************************)
(* Specification of identity alone, on templates of every shape.           *)
(***************************************************************************)
\* templates of n literals and m values
TemplatesOf(n, m) ==
  {[strings |-> ss, values |-> [i \in 1..m |-> Str(vs[i])]] :
     ss \in [1..n -> Pieces], vs \in [1..m -> Pieces]}

InitIdentity ==
  /\ tpl \in UNION {TemplatesOf(n, m) : n \in 1..MaxSegs, m \in 0..(MaxSegs - 1)}
  /\ Len(tpl.values) < Len(tpl.strings)
  /\ out = NoCall
  /\ IdleChain /\ IdleWrap /\ IdleNumbering /\ IdleTags /\ IdleRoman /\ IdleCounter

ApplyIdentity ==
  /\ out = NoCall
  /\ out' = Str(identity(tpl.strings, tpl.values))
  /\ UNCHANGED <<tpl, chain_vars, wrap_vars, numbering_vars, tags_vars,
                 roman_vars, counter_vars>>

NextIdentity == ApplyIdentity

SpecIdentity == InitIdentity /\ [][NextIdentity]_vars

(***************************************************************************)
(* Claims on chaining (SpecChain) and on identity (SpecIdentity).          *)
(***************************************************************************)
IsComposite(f) == f.t = "function" /\ f.kind = "composite"

IsChainable(f) == f.t = "function" /\ f.kind = "chainable"

\* the function a chain of composites applies first
RECURSIVE Innermost(_)
Innermost(f) == IF f.kind = "composite" THEN Innermost(f.inner) ELSE f

\* the display name a transform should carry, from its structure
RECURSIVE FullName(_)
FullName(f) ==
  IF f.kind = "composite"
  THEN tag_name(f.tag) \o "(" \o FullName(f.inner) \o ")"
  ELSE IF f.kind = "chainable" THEN tag_name(f.tag) ELSE "raw"

\* C1: a composite outer(inner) called on a template returns outer applied
\* to the one-literal template made of inner's result on that template.
C1_CompositeInnerThenOuter ==
  (IsComposite(callee) /\ arg.t = "object") =>
    result = Call(make_chainable(callee.tag),
                  Template(<<to_string(Call(callee.inner, arg, vals))>>), <<>>)

\* indent(10)(outdent)` ${"a"}` has returned "a" behind ten spaces
C1_Witness ==
  /\ IsComposite(callee) /\ callee.name = "indent(10)(outdent)"
  /\ arg = Template(<<<<" ">>, <<>>>>) /\ vals = <<Str(<<"a">>)>>
  /\ result = Str(Spaces(10) \o <<"a">>)

\* C2: a composite outer(inner) called with a transform t returns a
\* transform, the same one as outer(inner(t)), never a string.
C2_CompositeIsChainable ==
  (IsComposite(callee) /\ Innermost(callee) # raw /\ IsChainable(arg)) =>
    /\ result.t = "function"
    /\ result = Call(make_chainable(callee.tag), Call(callee.inner, arg, <<>>), <<>>)

\* C3: for chainable outer and inner, outer(inner)(s) on a plain string s
\* is the string outer(inner(s)).
C3_CompositeOnString ==
  (IsComposite(callee) /\ arg.t = "string" /\ Innermost(callee) # raw) =>
    /\ result.t = "string"
    /\ result = Call(make_chainable(callee.tag), Call(callee.inner, arg, <<>>), <<>>)

\* indent(10)(outdent)(" a") has returned "a" behind ten spaces
C3_Witness ==
  /\ IsComposite(callee) /\ callee.name = "indent(10)(outdent)"
  /\ arg = Str(<<" ", "a">>)
  /\ result = Str(Spaces(10) \o <<"a">>)

\* C4: a chainable tag called directly on a string s returns what it
\* returns on the template whose only literal is s, with no value.
C4_StringAsSingleLiteral ==
  (IsChainable(callee) /\ arg.t = "string") =>
    result = Call(callee, Template(<<arg.s>>), <<>>)

\* outdent(" a") has returned "a"
C4_Witness ==
  /\ IsChainable(callee) /\ callee.name = "outdent"
  /\ arg = Str(<<" ", "a">>)
  /\ result = Str(<<"a">>)

\* C5: the composite returned by outer(inner) is named
\* outerName(innerName), recursively, and holds outer's tag and inner with
\* their names as they were.
C5_CompositeName ==
  (IsChainable(callee) /\ arg.t = "function") =>
    /\ result.name = callee.name \o "(" \o arg.name \o ")"
    /\ result.name = FullName(result)
    /\ result.inner = arg /\ make_chainable(result.tag) = callee
    /\ (callee.name = "indent(10)" /\ arg.name = "outdent"
          => result.name = "indent(10)(outdent)")

\* identity(fold(flush)) has been built and is named so
C5_Witness ==
  /\ IsChainable(callee) /\ callee.name = "identity"
  /\ IsComposite(arg) /\ arg.name = "fold(flush)"
  /\ result.name = "identity(fold(flush))"

\* the literals in order with the values that exist in between
RECURSIVE Interleaved(_, _)
Interleaved(strings, values) ==
  IF strings = <<>> THEN <<>>
  ELSE strings[1]
       \o (IF values = <<>> THEN Interleaved(Tail(strings), <<>>)
           ELSE values[1].s \o Interleaved(Tail(strings), Tail(values)))

\* C6: identity on a template whose values run short (fewer than the
\* literals minus one) returns the literals in order with only the
\* supplied values in between, and nothing else.
C6_MissingValuesAreEmpty ==
  (out.t = "string" /\ Len(tpl.values) < Len(tpl.strings) - 1) =>
    out.s = Interleaved(tpl.strings, tpl.values)

\* C7: identity on a well-formed template returns literal, value,
\* literal, ... in order; with one literal and no value, that literal.
C7_IdentityInterleaves ==
  (out.t = "string" /\ Len(tpl.values) = Len(tpl.strings) - 1) =>
    /\ out.s = Interleaved(tpl.strings, tpl.values)
    /\ (Len(tpl.strings) = 1 => out.s = tpl.strings[1])

\* identity`a${" "}${"\n"}a` has returned "a \na"
C7_Witness ==
  /\ out.t = "string"
  /\ tpl.strings = <<<<"a">>, <<>>, <<"a">>>>
  /\ tpl.values = <<Str(<<" ">>), Str(<<"\n">>)>>
  /\ out.s = <<"a", " ", "\n", "a">>

(***************************************************************************)
(* wrap(n) and split(n).                                                   *)
(***************************************************************************)
\* the regular expression class \w, among the characters of the model
IsWord(c) == c \in {"a"}

\* line.replace(/\b\s+/g, " "): a run of white space after a word
\* character becomes one space
RECURSIVE FoldWordSpaces(_, _)
FoldWordSpaces(s, after_word) ==
  IF s = <<>> THEN <<>>
  ELSE IF IsSpace(s[1]) /\ after_word
       THEN <<" ">> \o FoldWordSpaces(Slice(s, LeadingWhile(s, FALSE)), FALSE)
       ELSE <<s[1]>> \o FoldWordSpaces(Tail(s), IsWord(s[1]))

\* line.replace(/\s$/, ""): one trailing white space character goes
TrimOneEnd(s) ==
  IF s # <<>> /\ IsSpace(s[Len(s)]) THEN SubSeq(s, 1, Len(s) - 1) ELSE s

\* an indentation that is 0 for every line
indentation_zero(line) == 0

\* const indentation = (line) => /^\s*/.exec(line)?.[0]?.length ?? 0
indentation(line) == LeadingWhile(line, FALSE)

\* line.lastIndexOf(" ", n): the last index <= n (from 0) of a space, or -1;
\* a negative n counts as 0
LastIndexOf(line, n) ==
  LET from == IF n < 0 THEN 0 ELSE n
      hits == {i \in 0..(Len(line) - 1) : i <= from /\ line[i + 1] = " "}
  IN IF hits = {} THEN -1 ELSE CHOOSE i \in hits : \A j \in hits : j <= i

\* line.indexOf(" ", n): the first index >= n (from 0) of a space, or -1
IndexOf(line, n) ==
  LET hits == {i \in 0..(Len(line) - 1) : i >= n /\ line[i + 1] = " "}
  IN IF hits = {} THEN -1 ELSE CHOOSE i \in hits : \A j \in hits : i <= j

\* split's break index, always taken at the first space from column n on
split_index_forward(n, lwi) == IndexOf(lwi.line, n)

\* the index split(n) breaks the line at, or -1 when it cannot
split_index(n, lwi) ==
  LET i == LastIndexOf(lwi.line, n)
  IN IF i < 0 \/ i < lwi.indent THEN IndexOf(lwi.line, n) ELSE i

\* whether split(n) returns the line whole
split_returns(n, lwi) == Len(lwi.line) <= n \/ split_index(n, lwi) < 0

\* the argument of the recursive call, the rest taken one character late
split_rest_late(n, lwi) ==
  [indent |-> lwi.indent,
   line |-> Spaces(lwi.indent) \o Slice(lwi.line, split_index(n, lwi) + 2)]

\* the argument of the recursive call of split(n)
split_rest(n, lwi) ==
  [indent |-> lwi.indent,
   line |-> Spaces(lwi.indent) \o Slice(lwi.line, split_index(n, lwi) + 1)]

\* the normalized lines wrap reduces: text-lines, then the two maps
wrap_lines(text) ==
  LET ls == text_lines(text)
  IN [i \in 1..Len(ls) |-> TrimOneEnd(FoldWordSpaces(ls[i], FALSE))]

(***************************************************************************)
(* Specification of wrap(width) applied to a text, one reduction step and  *)
(* one call of split at a time.                                            *)
(***************************************************************************)
\* wrap starting with the indentation levels at 0
InitWrap_zero ==
  /\ wtext \in Texts(MaxWrapText)
  /\ width \in (-1)..MaxWidth
  /\ wpc = "start" /\ pending = <<>>
  /\ previous_indentation = 0 /\ current_indentation = 0
  /\ logical = <<>> /\ depth = 0 /\ caller = NoCall
  /\ physical = <<>> /\ wout = NoCall
  /\ IdleNumbering /\ IdleTags /\ IdleRoman /\ IdleCounter
  /\ IdleChain /\ IdleIdentity

InitWrap ==
  /\ wtext \in Texts(MaxWrapText)
  /\ width \in (-1)..MaxWidth
  /\ wpc = "start" /\ pending = <<>>
  /\ previous_indentation = -1 /\ current_indentation = -1
  /\ logical = <<>> /\ depth = 0 /\ caller = NoCall
  /\ physical = <<>> /\ wout = NoCall
  /\ IdleNumbering /\ IdleTags /\ IdleRoman /\ IdleCounter
  /\ IdleChain /\ IdleIdentity

\* wrap(n)`...`: the text is normalized and the reduction starts
WrapStart ==
  /\ wpc = "start"
  /\ pending' = wrap_lines(wtext)
  /\ wpc' = IF wrap_lines(wtext) = <<>> THEN "split" ELSE "reduce"
  /\ UNCHANGED <<wtext, width, previous_indentation, current_indentation,
                 logical, depth, caller, physical, wout,
                 chain_vars, identity_vars, numbering_vars,
                 tags_vars,
                 roman_vars, counter_vars>>

\* one call of the reducer that joins lines of identical indentation
MergeLine ==
  /\ wpc = "reduce"
  /\ LET line == Head(pending)
         ind == indentation(line)
         last == logical[Len(logical)]
     IN /\ previous_indentation' = current_indentation
        /\ IF Len(line) <= ind
           THEN /\ current_indentation' = -1
                /\ logical' = Append(logical, [indent |-> 0, line |-> <<>>])
                /\ wpc' = IF Tail(pending) = <<>> THEN "split" ELSE "reduce"
           ELSE /\ current_indentation' = ind
                /\ IF current_indentation # ind
                   THEN /\ logical' = Append(logical, [indent |-> ind, line |-> line])
                        /\ wpc' = IF Tail(pending) = <<>> THEN "split" ELSE "reduce"
                   ELSE IF logical = <<>>
                        THEN /\ logical' = logical
                             /\ wpc' = "TypeError"
                        ELSE /\ logical' = [logical EXCEPT ![Len(logical)] =
                                            [indent |-> last.indent,
                                             line |-> last.line \o <<" ">> \o Slice(line, ind)]]
                             /\ wpc' = IF Tail(pending) = <<>> THEN "split" ELSE "reduce"
  /\ pending' = Tail(pending)
  /\ UNCHANGED <<wtext, width, depth, caller, physical, wout,
                 chain_vars, identity_vars, numbering_vars,
                 tags_vars,
                 roman_vars, counter_vars>>

\* one call of split(n): on the next logical line, or the recursive call
SplitCall ==
  /\ wpc = "split" /\ logical # <<>>
  /\ LET lwi == Head(logical)
     IN IF split_returns(width, lwi)
        THEN /\ physical' = Append(physical, lwi.line)
             /\ logical' = Tail(logical)
             /\ depth' = 0 /\ caller' = NoCall
             /\ wpc' = wpc
        ELSE /\ physical' = Append(physical, Substr0(lwi.line, split_index(width, lwi)))
             /\ logical' = <<split_rest(width, lwi)>> \o Tail(logical)
             /\ depth' = depth + 1 /\ caller' = lwi
             /\ wpc' = IF depth < MaxStack THEN wpc ELSE "RangeError"
  /\ UNCHANGED <<wtext, width, pending, previous_indentation,
                 current_indentation, wout, chain_vars, identity_vars, numbering_vars,
                 tags_vars,
                 roman_vars, counter_vars>>

\* .flat().join("\n"): wrap returns
WrapJoin ==
  /\ wpc = "split" /\ logical = <<>>
  /\ wout' = Str(Join(physical, <<"\n">>))
  /\ wpc' = "done"
  /\ UNCHANGED <<wtext, width, pending, previous_indentation,
                 current_indentation, logical, depth, caller, physical,
                 chain_vars, identity_vars, numbering_vars,
                 tags_vars,
                 roman_vars, counter_vars>>

NextWrap == WrapStart \/ MergeLine \/ SplitCall \/ WrapJoin

SpecWrap == InitWrap /\ [][NextWrap]_vars

(***************************************************************************)
(* Claims on wrap (SpecWrap).                                              *)
(***************************************************************************)
\* the lines of the string wrap returned
OutputLines == SplitNewline(wout.s)

HasSpace(line) == \E i \in 1..Len(line) : line[i] = " "

\* C8: wrap(n) terminates for every text and every width: every recursive
\* call of split receives a line strictly shorter than its caller's line,
\* and the call stack is never exhausted.
C8_SplitShrinks ==
  /\ wpc # "RangeError"
  /\ (wpc = "split" /\ depth > 0) =>
       Len(Head(logical).line) < Len(caller.line)

\* C9: every line of the output of wrap(n) has length <= n or contains no
\* space character.
C9_LineFitsOrHasNoSpace ==
  wpc = "done" =>
    \A i \in 1..Len(OutputLines) :
      Len(OutputLines[i]) <= width \/ ~HasSpace(OutputLines[i])

\* C9 as amended: every line of the output of wrap(n) has length <= n or
\* contains no space character after its leading indentation.
C9_LineFitsOrHasNoInnerSpace ==
  wpc = "done" =>
    \A i \in 1..Len(OutputLines) :
      \/ Len(OutputLines[i]) <= width
      \/ ~HasSpace(Slice(OutputLines[i], indentation(OutputLines[i])))

\* wrap(3)("  aa a") has returned "  aa" and "  a": the first line is
\* longer than 3 and was broken at its only space after the indentation
C9_Witness ==
  /\ wpc = "done" /\ width = 3
  /\ wtext = <<" ", " ", "a", "a", " ", "a">>
  /\ OutputLines = <<<<" ", " ", "a", "a">>, <<" ", " ", "a">>>>

(***************************************************************************)
(* Numbering schemes.                                                      *)
(***************************************************************************)
Digits == <<"0", "1", "2", "3", "4", "5", "6", "7", "8", "9">>

LowerLetters ==
  <<"a", "b", "c", "d", "e", "f", "g", "h", "i", "j", "k", "l", "m",
    "n", "o", "p", "q", "r", "s", "t", "u", "v", "w", "x", "y", "z">>

UpperLetters ==
  <<"A", "B", "C", "D", "E", "F", "G", "H", "I", "J", "K", "L", "M",
    "N", "O", "P", "Q", "R", "S", "T", "U", "V", "W", "X", "Y", "Z">>

\* String.prototype.toLowerCase on one character
ToLowerCase(c) ==
  IF \E k \in 1..Len(UpperLetters) : UpperLetters[k] = c
  THEN LowerLetters[CHOOSE k \in 1..Len(UpperLetters) : UpperLetters[k] = c]
  ELSE c

\* `${n}` for a natural number n
RECURSIVE DecimalOf(_)
DecimalOf(n) ==
  IF n < 10 THEN <<Digits[n + 1]>>
  ELSE DecimalOf(n \div 10) \o <<Digits[(n % 10) + 1]>>

\* export const arabize = (n) => `${n}`
arabize(n) == IF n < 0 THEN <<"-">> \o DecimalOf(-n) ELSE DecimalOf(n)

\* the function alpha(n, s) alphabetize({uppercase}) returns
RECURSIVE alpha(_, _, _)
alpha(uppercase, n, s) ==
  IF n < 1 THEN s
  ELSE alpha(uppercase, (n - 1) \div 26,
             <<(IF uppercase THEN UpperLetters ELSE LowerLetters)[((n - 1) % 26) + 1]>> \o s)

\* the roman literals without the subtractive pairs
literals_additive(uppercase) ==
  LET table == << [roman |-> <<"M">>, arabic |-> 1000],
                  [roman |-> <<"D">>, arabic |-> 500],
                  [roman |-> <<"C">>, arabic |-> 100],
                  [roman |-> <<"L">>, arabic |-> 50],
                  [roman |-> <<"X">>, arabic |-> 10],
                  [roman |-> <<"V">>, arabic |-> 5],
                  [roman |-> <<"I">>, arabic |-> 1] >>
  IN [k \in 1..Len(table) |->
        [roman |-> IF uppercase THEN table[k].roman
                   ELSE [j \in 1..Len(table[k].roman) |-> ToLowerCase(table[k].roman[j])],
         arabic |-> table[k].arabic]]

\* the roman literals, largest first
literals(uppercase) ==
  LET table == << [roman |-> <<"M">>, arabic |-> 1000],
                  [roman |-> <<"C", "M">>, arabic |-> 900],
                  [roman |-> <<"D">>, arabic |-> 500],
                  [roman |-> <<"C", "D">>, arabic |-> 400],
                  [roman |-> <<"C">>, arabic |-> 100],
                  [roman |-> <<"X", "C">>, arabic |-> 90],
                  [roman |-> <<"L">>, arabic |-> 50],
                  [roman |-> <<"X", "L">>, arabic |-> 40],
                  [roman |-> <<"X">>, arabic |-> 10],
                  [roman |-> <<"I", "X">>, arabic |-> 9],
                  [roman |-> <<"V">>, arabic |-> 5],
                  [roman |-> <<"I", "V">>, arabic |-> 4],
                  [roman |-> <<"I">>, arabic |-> 1] >>
  IN [k \in 1..Len(table) |->
        [roman |-> IF uppercase THEN table[k].roman
                   ELSE [j \in 1..Len(table[k].roman) |-> ToLowerCase(table[k].roman[j])],
         arabic |-> table[k].arabic]]

\* the function roman(n, s) romanize({uppercase}) returns
RECURSIVE roman(_, _, _)
roman(uppercase, n, s) ==
  IF n < 0 THEN <<"-">> \o roman(uppercase, -n, s)
  ELSE LET lits == literals(uppercase)
           fit == {k \in 1..Len(lits) : n >= lits[k].arabic}
       IN IF fit = {} THEN s
          ELSE LET k == CHOOSE i \in fit : \A j \in fit : i <= j
               IN roman(uppercase, n - lits[k].arabic, s \o lits[k].roman)

\* numberingｰschemes[scheme](n)
numbering_schemes(scheme, n) ==
  CASE scheme = "alpha" -> alpha(FALSE, n, <<>>)
    [] scheme = "Alpha" -> alpha(TRUE, n, <<>>)
    [] scheme = "roman" -> roman(FALSE, n, <<>>)
    [] scheme = "Roman" -> roman(TRUE, n, <<>>)
    [] OTHER -> arabize(n)

(***************************************************************************)
(* Padding width.                                                          *)
(***************************************************************************)
Abs(n) == IF n < 0 THEN -n ELSE n

\* Math.ceil(Math.log(max) / Math.log(base)) for max >= 1: the least k with
\* base^k >= max (the quotient is exact at the powers the model reaches)
RECURSIVE LeastPower(_, _, _, _)
LeastPower(max, base, k, power) ==
  IF power >= max THEN k ELSE LeastPower(max, base, k + 1, power * base)

\* Math.log(0) is -Infinity, and so is its ceiling and any sum with it
CeilLog(max, base) == IF max = 0 THEN -Infinity ELSE LeastPower(max, base, 0, 1)

\* breakpoints with the one of length 8 a unit too high
roman_breakpoints_late ==
  <<1, 2, 3, 8, 18, 28, 38, 89, 188, 288, 388, 888, 1888, 2888, 3888>>

\* the lengths' breakpoints of roman numerals
roman_breakpoints ==
  <<1, 2, 3, 8, 18, 28, 38, 88, 188, 288, 388, 888, 1888, 2888, 3888>>

\* Array.prototype.findIndex(element => element > max), from 0, or -1
FindIndexAbove(table, max) ==
  LET hits == {k \in 1..Len(table) : table[k] > max}
  IN IF hits = {} THEN -1 ELSE (CHOOSE k \in hits : \A j \in hits : k <= j) - 1

\* String.prototype.toLocaleLowerCase on a scheme name
SchemeLowerCase(scheme) ==
  CASE scheme = "Alpha" -> "alpha" [] scheme = "Roman" -> "roman"
    [] scheme = "Digit" -> "digit" [] OTHER -> scheme

max_padding_width(from, length, scheme, signed) ==
  LET sign == IF from < 0 \/ signed THEN 1 ELSE 0
      max == IF Abs(from) > Abs(length) THEN Abs(from) ELSE Abs(length)
      base == SchemeLowerCase(scheme)
  IN CASE base = "alpha" ->
            IF max = 0 THEN -Infinity ELSE sign + CeilLog(max, 26)
       [] base = "digit" ->
            IF max = 0 THEN -Infinity ELSE sign + CeilLog(max, 10)
       [] OTHER -> sign + FindIndexAbove(roman_breakpoints, max)

(***************************************************************************)
(* The options object and the counter.                                     *)
(***************************************************************************)
\* options[key] ?? default
Get(o, key, default) == IF key \in DOMAIN o THEN o[key] ELSE default

\* options[key] = value
Put(o, key, value) == (key :> value) @@ o

\* options[key] ??= value
Default(o, key, value) == IF key \in DOMAIN o THEN o ELSE Put(o, key, value)

\* String.prototype.padStart(width, padding)
PadStart(s, w, padding) ==
  IF w <= Len(s) \/ padding = <<>> THEN s
  ELSE [i \in 1..(w - Len(s)) |-> padding[((i - 1) % Len(padding)) + 1]] \o s

\* isNaN(parseInt(s)): no digit after the leading white space and sign
ParseIntIsNaN(s) ==
  LET t == Slice(s, LeadingWhile(s, FALSE))
      u == IF t # <<>> /\ t[1] \in {"+", "-"} THEN Tail(t) ELSE t
  IN u = <<>> \/ \A d \in 1..Len(Digits) : Digits[d] # u[1]

\* the defaults the constructor of counter writes into the options
counter_options(o) ==
  LET o1 == Default(o, "prefix", <<>>)
      o2 == Default(o1, "suffix", <<>>)
      o3 == Default(o2, "pad_width", 0)
      o4 == Put(o3, "pad_with", Get(o, "pad_with", <<" ">>))
      o5 == Put(o4, "pad_zero_with", Get(o, "pad_zero_with", o4["pad_with"]))
  IN Default(o5, "sign_all", FALSE)

\* new counter(options): the fields of the object
counter_new(o) ==
  [value |-> Get(o, "number_from", 0),
   string_padding |-> ParseIntIsNaN(counter_options(o)["pad_with"]),
   stringize |-> Get(o, "numbering_scheme", "digit")]

\* padder, handing the signed number to the numbering scheme
padder_signed_numeral(o, c, n) ==
  LET sign == IF o["sign_all"]
              THEN (IF n < 0 THEN <<"-">> ELSE IF n = 0 THEN <<"±">> ELSE <<"+">>)
              ELSE IF n < 0 THEN <<"-">> ELSE <<>>
      n_as_string == numbering_schemes(c.stringize, n)
      padding == IF n # 0 THEN o["pad_with"] ELSE o["pad_zero_with"]
      w == o["pad_width"] - (IF n < 0 /\ ~o["sign_all"] THEN 1 ELSE 0)
  IN IF c.string_padding
     THEN PadStart(sign \o n_as_string, o["pad_width"], padding)
     ELSE sign \o PadStart(n_as_string, w, padding)

\* this.padder(n)
padder(o, c, n) ==
  LET sign == IF o["sign_all"]
              THEN (IF n < 0 THEN <<"-">> ELSE IF n = 0 THEN <<"±">> ELSE <<"+">>)
              ELSE IF n < 0 THEN <<"-">> ELSE <<>>
      n_as_string == numbering_schemes(c.stringize, Abs(n))
      padding == IF n # 0 THEN o["pad_with"] ELSE o["pad_zero_with"]
      w == o["pad_width"] - (IF n < 0 /\ ~o["sign_all"] THEN 1 ELSE 0)
  IN IF c.string_padding
     THEN PadStart(sign \o n_as_string, o["pad_width"], padding)
     ELSE sign \o PadStart(n_as_string, w, padding)

\* a counter whose value is never advanced
next_stays(c) == c

\* get next(): the value is advanced by one, the counter returned
next(c) == [c EXCEPT !.value = c.value + 1]

\* reset, setting the value to 0 whatever the starting number
reset_to_zero(o, c) == [c EXCEPT !.value = 0]

\* get reset(): the value is set back to the starting number
reset(o, c) == [c EXCEPT !.value = Get(o, "number_from", 0)]

\* get raw(): the value in the numbering scheme, unpadded
counter_raw(c) == numbering_schemes(c.stringize, c.value)

\* get pad(): prefix, padded number, suffix
pad(o, c) == o["prefix"] \o padder(o, c, c.value) \o o["suffix"]

\* what the numbering tag writes into the options before it builds the
\* counter, for a text of that many lines
numbering_options(o, length) ==
  LET o1 == Default(o, "number_from", 0)
      o2 == Default(o1, "suffix", <<".", " ">>)
      o3 == Default(o2, "pad_with", <<" ">>)
  IN Put(o3, "pad_width",
         max_padding_width(o3["number_from"], length,
                           Get(o3, "numbering_scheme", "digit"),
                           Get(o3, "sign_all", FALSE)))

(***************************************************************************)
(* Specification of one call of a numbering tag, one line at a time.       *)
(***************************************************************************)
\* a text of that many lines
LinesText(n) == Join([i \in 1..n |-> <<"a">>], <<"\n">>)

\* the options a caller passes to numbering(options)
CallerOptions ==
  {a @@ b @@ c @@ d @@ e :
     a \in {<<>>} \cup {("number_from" :> f) : f \in (-MaxFrom)..MaxFrom},
     b \in {<<>>} \cup {("numbering_scheme" :> k) :
                          k \in {"digit", "alpha", "Alpha", "roman", "Roman"}},
     c \in {<<>>, ("sign_all" :> TRUE)},
     d \in {<<>>, ("pad_with" :> <<"0">>)},
     e \in {<<>>, ("pad_width" :> 4)}}

\* the texts a numbering tag is applied to: n lines, or any short text
NumberingTexts == {LinesText(n) : n \in 0..MaxLines} \cup Texts(MaxText)

InitNumbering ==
  /\ given \in CallerOptions /\ earlier = NoCall
  /\ options = given
  /\ ntext \in NumberingTexts
  /\ npc = "start" /\ nlines = <<>> /\ index = NoCall
  /\ fields = <<>> /\ numbered = <<>> /\ nout = NoCall
  /\ IdleChain /\ IdleIdentity /\ IdleWrap /\ IdleTags /\ IdleRoman /\ IdleCounter

\* the tag is called: the lines are split, the options completed, the pad
\* width computed and the counter built
NumberingStart ==
  /\ npc = "start"
  /\ LET ls == text_lines(ntext)
         o == numbering_options(options, Len(ls))
     IN /\ nlines' = ls
        /\ options' = counter_options(o)
        /\ index' = counter_new(o)
        /\ npc' = IF ls = <<>> THEN "join" ELSE "map"
  /\ UNCHANGED <<given, earlier, ntext, fields, numbered, nout,
                 chain_vars, identity_vars, wrap_vars, tags_vars,
                 roman_vars, counter_vars>>

\* lines.map: `${index.next.pad}${line}` for the next line
NumberLine ==
  /\ npc = "map"
  /\ LET k == Len(numbered) + 1
         advanced == next(index)
     IN /\ index' = advanced
        /\ fields' = Append(fields, padder(options, advanced, advanced.value))
        /\ numbered' = Append(numbered, pad(options, advanced) \o nlines[k])
        /\ npc' = IF k = Len(nlines) THEN "join" ELSE "map"
  /\ UNCHANGED <<given, earlier, options, ntext, nlines, nout,
                 chain_vars, identity_vars, wrap_vars, tags_vars,
                 roman_vars, counter_vars>>

\* .join("\n"): the tag returns
NumberingJoin ==
  /\ npc = "join"
  /\ nout' = Str(Join(numbered, <<"\n">>))
  /\ npc' = "done"
  /\ UNCHANGED <<given, earlier, options, ntext, nlines, index, fields, numbered,
                 chain_vars, identity_vars, wrap_vars, tags_vars,
                 roman_vars, counter_vars>>

NextNumbering == NumberingStart \/ NumberLine \/ NumberingJoin

SpecNumbering == InitNumbering /\ [][NextNumbering]_vars

(***************************************************************************)
(* Claims on numbering (SpecNumbering).                                    *)
(***************************************************************************)
\* C10: in one call of a numbering tag, the rendered number (sign, numeral
\* and padding) has the same width on every line.
C10_SameFieldWidth ==
  \A i \in 1..Len(fields) : \A j \in 1..Len(fields) :
    Len(fields[i]) = Len(fields[j])

\* the number the caller asked the numbering to start from
NumberFrom == Get(given, "number_from", 0)

\* the rendering of a number by the counter of the current call
Rendering(v) == options["prefix"] \o padder(options, index, v) \o options["suffix"]

\* C11: a numbering tag writes one output line per normalized input line;
\* the k-th output line is the rendering of the number number_from + k
\* followed by the k-th normalized line, unchanged; the counter starts at
\* number_from and is advanced by one before each rendering.
C11_OneNumberedLinePerLine ==
  /\ npc = "start" => nlines = <<>> /\ numbered = <<>>
  /\ npc \in {"map", "join", "done"} =>
       /\ nlines = text_lines(ntext)
       /\ Len(numbered) <= Len(nlines)
       /\ index.value = NumberFrom + Len(numbered)
       /\ \A k \in 1..Len(numbered) :
            numbered[k] = Rendering(NumberFrom + k) \o nlines[k]
  /\ npc \in {"join", "done"} => Len(numbered) = Len(nlines)
  /\ npc = "done" =>
       /\ nlines # <<>> => SplitNewline(nout.s) = numbered
       /\ nlines = <<>> => nout.s = <<>>

C11_Witness ==
  /\ npc = "done" /\ NumberFrom # 0
  /\ Len(nlines) = 2 /\ nlines[1] # nlines[2]
  /\ Len(SplitNewline(nout.s)) = 2

\* C12: when the caller supplies a pad width w, every number is padded to
\* the width w; the automatic width is used only when none is supplied.
C12_SuppliedPadWidthIsUsed ==
  "pad_width" \in DOMAIN given =>
    /\ npc # "start" => options["pad_width"] = given["pad_width"]
    /\ \A k \in 1..Len(fields) : Len(fields[k]) >= given["pad_width"]

\* the sign characters
SignChars == {"-", "±", "+"}

\* the sign a number is to be written with
ExpectedSign(v) ==
  IF Get(given, "sign_all", FALSE)
  THEN (IF v < 0 THEN <<"-">> ELSE IF v = 0 THEN <<"±">> ELSE <<"+">>)
  ELSE (IF v < 0 THEN <<"-">> ELSE <<>>)

\* the last characters of a string, as many as the other string has
EndOf(s, numeral) ==
  IF Len(s) < Len(numeral) THEN <<>>
  ELSE SubSeq(s, Len(s) - Len(numeral) + 1, Len(s))

\* C19: without sign_all a number is written with "-" exactly when it is
\* below zero and with no sign otherwise; with sign_all it is written with
\* exactly one sign, "-" below zero, the plus-minus sign for zero, "+" above;
\* the numbering scheme always renders the absolute value.
C19_SignOfNumber ==
  \A k \in 1..Len(fields) :
    LET v == NumberFrom + k
        numeral == numbering_schemes(index.stringize, Abs(v))
    IN /\ SelectSeq(fields[k], LAMBDA c : c \in SignChars) = ExpectedSign(v)
       /\ EndOf(fields[k], numeral) = numeral

C19_Witness ==
  /\ npc = "done" /\ Get(given, "sign_all", FALSE) /\ NumberFrom = -2
  /\ Len(fields) >= 3
  /\ \E i \in 1..Len(fields[1]) : fields[1][i] = "-"
  /\ \E i \in 1..Len(fields[2]) : fields[2][i] = "±"
  /\ \E i \in 1..Len(fields[3]) : fields[3][i] = "+"

(***************************************************************************)
(* Specification of the line tags: a text is split into its normalized     *)
(* lines, or paragraph, outdent and indent(n) are applied to it, one to    *)
(* the result of the other.                                                *)
(***************************************************************************)
\* the example of an indented block: "  a", "  b", "    c"
IndentedBlock ==
  <<" ", " ", "a", "\n", " ", " ", "b", "\n", " ", " ", " ", " ", "c">>

\* the texts the line tags are applied to
LineTexts == Texts(MaxLineText) \cup {IndentedBlock}

\* the internal function text-lines, as a function value
text_lines_function == [t |-> "function", kind |-> "internal", name |-> "text_lines"]

\* an array of lines
Lines(ls) == [t |-> "lines", lines |-> ls]

InitTags ==
  /\ ttext \in LineTexts
  /\ tapplied = <<>> /\ tbefore = NoCall /\ tafter = NoCall
  /\ IdleChain /\ IdleIdentity /\ IdleWrap /\ IdleNumbering
  /\ IdleRoman /\ IdleCounter

\* text-lines(text): the normalized lines of the text
SplitLines ==
  /\ tapplied = <<>>
  /\ tapplied' = <<text_lines_function>>
  /\ tbefore' = Str(ttext)
  /\ tafter' = Lines(text_lines(ttext))
  /\ UNCHANGED <<ttext, chain_vars, identity_vars, wrap_vars, numbering_vars,
                 roman_vars, counter_vars>>

\* f(text), or f(g(text)): a chainable tag called on a string
ApplyTag(f) ==
  /\ Len(tapplied) < MaxChain
  /\ tapplied # <<>> => tafter.t = "string"
  /\ LET x == IF tapplied = <<>> THEN Str(ttext) ELSE tafter
     IN /\ tbefore' = x
        /\ tafter' = Call(f, x, <<>>)
  /\ tapplied' = Append(tapplied, f)
  /\ UNCHANGED <<ttext, chain_vars, identity_vars, wrap_vars, numbering_vars,
                 roman_vars, counter_vars>>

ApplyParagraph == ApplyTag(make_chainable(Tag("paragraph", 0)))

ApplyOutdent == ApplyTag(make_chainable(Tag("outdent", 0)))

ApplyIndent ==
  \E n \in (-MaxIndent)..MaxIndent : ApplyTag(make_chainable(Tag("indent", n)))

NextTags == SplitLines \/ ApplyParagraph \/ ApplyOutdent \/ ApplyIndent

SpecTags == InitTags /\ [][NextTags]_vars

(***************************************************************************)
(* Claims on the line model and the line tags (SpecTags).                  *)
(***************************************************************************)
\* the lines of the caller's text, as split("\n") gives them
SourceLines == SplitNewline(ttext)

\* the first line of the caller's text that is not blank, 0 if there is none
FirstNonBlank ==
  LET found == {i \in 1..Len(SourceLines) : Trim(SourceLines[i]) # <<>>}
  IN IF found = {} THEN 0 ELSE CHOOSE i \in found : \A j \in found : i <= j

\* text-lines was called and has returned
LinesReturned == tapplied = <<text_lines_function>>

\* C13: when the text starts with one or more blank lines, followed by a
\* non-blank line, the normalized lines start with exactly one blank line,
\* followed by the first non-blank line.
C13_LeadingBlankKeptOnce ==
  (LinesReturned /\ FirstNonBlank > 1) =>
    /\ Len(tafter.lines) >= 2
    /\ tafter.lines[1] = <<>>
    /\ tafter.lines[2] = FoldSpaces(TrimEnd(SourceLines[FirstNonBlank]), FALSE)

\* C14: the normalized lines never contain two blank lines in a row, and
\* every blank line among them directly follows a non-blank line.
C14_BlankFollowsNonBlank ==
  LinesReturned =>
    \A i \in 1..Len(tafter.lines) :
      Trim(tafter.lines[i]) = <<>> =>
        i > 1 /\ Trim(tafter.lines[i - 1]) # <<>>

C14_Witness ==
  /\ LinesReturned
  /\ \E i \in 2..Len(SourceLines) :
       Trim(SourceLines[i]) = <<>> /\ Trim(SourceLines[i - 1]) = <<>>
  /\ \E i \in 1..Len(tafter.lines) : tafter.lines[i] = <<>>

\* the last call was a call of the tag of that name, and returned a string
Returned(name) ==
  /\ tapplied # <<>>
  /\ tapplied[Len(tapplied)].kind = "chainable"
  /\ tapplied[Len(tapplied)].tag.name = name
  /\ tafter.t = "string"

\* the normalized lines of the argument of the last call
ArgumentLines == text_lines(tbefore.s)

\* the lines of the string the last call returned
ReturnedLines == SplitNewline(tafter.s)

\* C15: what paragraph returns has no run of three or more newlines and
\* neither starts nor ends with a newline: it is the non-blank normalized
\* lines, joined by a double newline.
C15_ParagraphJoinsNonBlankLines ==
  Returned("paragraph") =>
    LET kept == SelectSeq(ArgumentLines, LAMBDA l : Trim(l) # <<>>)
        text == tafter.s
    IN /\ \A i \in 1..(Len(text) - 2) :
            ~(text[i] = "\n" /\ text[i + 1] = "\n" /\ text[i + 2] = "\n")
       /\ text # <<>> => text[1] # "\n" /\ text[Len(text)] # "\n"
       /\ kept = <<>> => text = <<>>
       /\ kept # <<>> =>
            /\ Len(ReturnedLines) = 2 * Len(kept) - 1
            /\ \A i \in 1..Len(kept) : ReturnedLines[2 * i - 1] = kept[i]
            /\ \A i \in 1..(Len(kept) - 1) : ReturnedLines[2 * i] = <<>>

C15_Witness ==
  /\ Returned("paragraph")
  /\ \E i \in 1..Len(ArgumentLines) : ArgumentLines[i] = <<>>
  /\ Len(ReturnedLines) = 3

\* C16: outdent is idempotent: outdent(outdent(s)) = outdent(s).
C16_OutdentIdempotent ==
  (Returned("outdent") /\ Len(tapplied) = 2 /\ tapplied[1] = tapplied[2]) =>
    tafter = tbefore

C16_Witness ==
  /\ Returned("outdent") /\ Len(tapplied) = 2 /\ tapplied[1] = tapplied[2]
  /\ tbefore.s # ttext
  /\ min_indentation(text_lines(ttext)) = 2
  /\ tafter = tbefore

\* the least number of leading spaces of the non-blank argument lines
LeastIndentation ==
  LET found == {LeadingWhile(ArgumentLines[i], TRUE) :
                  i \in {j \in 1..Len(ArgumentLines) : ArgumentLines[j] # <<>>}}
  IN CHOOSE m \in found : \A k \in found : m <= k

\* every returned line is the argument line less that many leading spaces,
\* the blank lines staying empty
ShiftedLeft(n) ==
  /\ Len(ReturnedLines) = Len(ArgumentLines)
  /\ \A i \in 1..Len(ArgumentLines) :
       IF ArgumentLines[i] = <<>> THEN ReturnedLines[i] = <<>>
       ELSE ArgumentLines[i] = Spaces(n) \o ReturnedLines[i]

\* C17: outdent removes from every normalized line the m leading spaces
\* that the least indented non-blank line has: every non-blank line loses
\* exactly m spaces and nothing else, the least indented line ends with no
\* indentation, the blank lines stay empty, the number of lines is the same.
C17_OutdentRemovesLeastIndentation ==
  Returned("outdent") =>
    IF ArgumentLines = <<>> THEN tafter.s = <<>>
    ELSE /\ ShiftedLeft(LeastIndentation)
         /\ \E i \in 1..Len(ReturnedLines) :
              ReturnedLines[i] # <<>> /\ ReturnedLines[i][1] # " "

C17_Witness ==
  /\ Returned("outdent") /\ Len(tapplied) = 1
  /\ ttext = IndentedBlock
  /\ ReturnedLines = << <<"a">>, <<"b">>, <<" ", " ", "c">> >>

\* the parameter n of the call of indent(n) that returned last
IndentBy == tapplied[Len(tapplied)].tag.n

\* C18: indent(n) shifts every line by the same amount and never removes a
\* character that is not a space: for n >= 0 every normalized line gets
\* exactly n spaces in front; for n < 0 every line loses exactly
\* min(-n, m) leading spaces, m being the least indentation of the
\* non-blank lines (a blank line has none to lose and stays empty).
C18_IndentShiftsEveryLine ==
  Returned("indent") =>
    IF ArgumentLines = <<>> THEN tafter.s = <<>>
    ELSE IF IndentBy >= 0
         THEN /\ Len(ReturnedLines) = Len(ArgumentLines)
              /\ \A i \in 1..Len(ArgumentLines) :
                   ReturnedLines[i] = Spaces(IndentBy) \o ArgumentLines[i]
         ELSE ShiftedLeft(IF -IndentBy < LeastIndentation
                          THEN -IndentBy ELSE LeastIndentation)

C18_Witness ==
  /\ Returned("indent") /\ Len(tapplied) = 1
  /\ ttext = IndentedBlock /\ IndentBy = -1
  /\ ReturnedLines = << <<" ", "a">>, <<" ", "b">>, <<" ", " ", " ", "c">> >>

(***************************************************************************)
(* The numbering of src/libs/cards.ts: the same tag, with a prefix and a   *)
(* suffix of their own for the line numbered zero.                         *)
(***************************************************************************)
\* the subscript digits, each one character
SmallDigits == <<"_0", "_1", "_2", "_3", "_4", "_5", "_6", "_7", "_8", "_9">>

\* the box drawing characters: light vertical, light vertical and
\* horizontal, light horizontal
BoxVertical == "|"
BoxCross == "#"
BoxHorizontal == "="

\* the mapper of arabize({big: false}): smallｰdigits[c] ?? c
small_digit(c) ==
  IF \E k \in 1..Len(Digits) : Digits[k] = c
  THEN SmallDigits[CHOOSE k \in 1..Len(Digits) : Digits[k] = c]
  ELSE c

\* the function digit(n) arabize({big}) returns
cards_arabize(big, n) ==
  IF big THEN arabize(n)
  ELSE [i \in 1..Len(arabize(n)) |-> small_digit(arabize(n)[i])]

cards_numbering_schemes(scheme, n) ==
  CASE scheme = "alpha" -> alpha(FALSE, n, <<>>)
    [] scheme = "Alpha" -> alpha(TRUE, n, <<>>)
    [] scheme = "roman" -> roman(FALSE, n, <<>>)
    [] scheme = "Roman" -> roman(TRUE, n, <<>>)
    [] scheme = "Digit" -> cards_arabize(TRUE, n)
    [] OTHER -> cards_arabize(FALSE, n)

\* what the constructor of numbering-counter writes into the options
numbering_counter_options(o) ==
  LET o1 == Default(o, "prefix", <<>>)
      o2 == Default(o1, "suffix", <<>>)
      o3 == Default(o2, "suffix_zero", o2["suffix"])
      o4 == Default(o3, "pad_width", 0)
      o5 == Put(o4, "pad_with", Get(o, "pad_with", <<" ">>))
      o6 == Put(o5, "pad_zero_with", Get(o, "pad_zero_with", o5["pad_with"]))
  IN Default(o6, "sign_all", FALSE)

\* new numbering-counter(options): the fields of the object
numbering_counter_new(o) ==
  [value |-> Get(o, "number_from", 0),
   string_padding |-> ParseIntIsNaN(numbering_counter_options(o)["pad_with"]),
   stringize |-> Get(o, "numbering_scheme", "digit")]

\* `${x}` for an option that may be undefined
OptionText(o, key) ==
  IF key \in DOMAIN o THEN o[key]
  ELSE <<"u", "n", "d", "e", "f", "i", "n", "e", "d">>

\* this.padder(n) of numbering-counter: prefix, padded number, suffix
numbering_counter_padder(o, c, n) ==
  LET sign == IF o["sign_all"]
              THEN (IF n < 0 THEN <<"-">> ELSE IF n = 0 THEN <<"±">> ELSE <<"+">>)
              ELSE IF n < 0 THEN <<"-">> ELSE <<>>
      prefix == IF n # 0 THEN o["prefix"] ELSE OptionText(o, "prefix_zero")
      suffix == IF n # 0 THEN o["suffix"] ELSE OptionText(o, "suffix_zero")
      n_as_string == cards_numbering_schemes(c.stringize, Abs(n))
      padding == IF n # 0 THEN o["pad_with"] ELSE o["pad_zero_with"]
      w == o["pad_width"] - (IF n < 0 /\ ~o["sign_all"] THEN 1 ELSE 0)
  IN IF c.string_padding
     THEN prefix \o PadStart(sign \o n_as_string, o["pad_width"], padding) \o suffix
     ELSE prefix \o sign \o PadStart(n_as_string, w, padding) \o suffix

\* what the numbering tag of cards.ts writes into the options before it
\* builds the counter, for a text of that many lines
cards_numbering_options(o, length) ==
  LET o1 == Default(o, "number_from", 0)
      o2 == Default(o1, "prefix", <<BoxVertical>>)
      o3 == Default(o2, "suffix", <<BoxVertical>>)
      o4 == Default(o3, "prefix_zero", <<BoxCross>>)
      o5 == Default(o4, "suffix_zero", <<BoxCross>>)
      o6 == Default(o5, "pad_with", <<" ">>)
      o7 == Default(o6, "pad_zero_with", <<BoxHorizontal>>)
  IN Put(o7, "pad_width",
         max_padding_width(o7["number_from"], length,
                           Get(o7, "numbering_scheme", "digit"),
                           Get(o7, "sign_all", FALSE)))

\* the options a caller passes to the numbering of cards.ts
CardsCallerOptions ==
  {a @@ b @@ c @@ d @@ e @@ f :
     a \in {<<>>} \cup {("number_from" :> n) : n \in (-MaxFrom)..MaxFrom},
     b \in {<<>>, ("numbering_scheme" :> "Digit"), ("numbering_scheme" :> "roman")},
     c \in {<<>>, ("prefix" :> <<"(">>)},
     d \in {<<>>, ("suffix" :> <<")">>)},
     e \in {<<>>, ("prefix_zero" :> <<"[">>)},
     f \in {<<>>, ("suffix_zero" :> <<"]">>)}}

InitCards ==
  /\ given \in CardsCallerOptions /\ earlier = NoCall
  /\ options = given
  /\ ntext \in {LinesText(n) : n \in 0..MaxLines}
  /\ npc = "start" /\ nlines = <<>> /\ index = NoCall
  /\ fields = <<>> /\ numbered = <<>> /\ nout = NoCall
  /\ IdleChain /\ IdleIdentity /\ IdleWrap /\ IdleTags /\ IdleRoman /\ IdleCounter

\* the tag is called: the lines are split, the options completed, the pad
\* width computed and the counter built
CardsNumberingStart ==
  /\ npc = "start"
  /\ LET ls == text_lines(ntext)
         o == cards_numbering_options(options, Len(ls))
     IN /\ nlines' = ls
        /\ options' = numbering_counter_options(o)
        /\ index' = numbering_counter_new(o)
        /\ npc' = IF ls = <<>> THEN "join" ELSE "map"
  /\ UNCHANGED <<given, earlier, ntext, fields, numbered, nout,
                 chain_vars, identity_vars, wrap_vars, tags_vars,
                 roman_vars, counter_vars>>

\* lines.map: `${index.next.pad}${line}` for the next line
CardsNumberLine ==
  /\ npc = "map"
  /\ LET k == Len(numbered) + 1
         advanced == next(index)
         padded == numbering_counter_padder(options, advanced, advanced.value)
     IN /\ index' = advanced
        /\ fields' = Append(fields, padded)
        /\ numbered' = Append(numbered, padded \o nlines[k])
        /\ npc' = IF k = Len(nlines) THEN "join" ELSE "map"
  /\ UNCHANGED <<given, earlier, options, ntext, nlines, nout,
                 chain_vars, identity_vars, wrap_vars, tags_vars,
                 roman_vars, counter_vars>>

NextCards == CardsNumberingStart \/ CardsNumberLine \/ NumberingJoin

SpecCards == InitCards /\ [][NextCards]_vars

(***************************************************************************)
(* Claims on the numbering of cards.ts (SpecCards).                        *)
(***************************************************************************)
\* the string starts with the other string
StartsWith(s, start) ==
  Len(s) >= Len(start) /\ SubSeq(s, 1, Len(start)) = start

\* C20: when the caller supplies a prefix or a suffix and no prefix or
\* suffix for zero, the line numbered zero is written with the regular
\* prefix and suffix; a prefix or suffix for zero is used on the line
\* numbered zero only, and only when the caller supplied it.
C20_ZeroRowUsesRegularAffixes ==
  \A k \in 1..Len(numbered) :
    LET zero == NumberFrom + k = 0
        own_prefix == zero /\ "prefix_zero" \in DOMAIN given
        own_suffix == zero /\ "suffix_zero" \in DOMAIN given
        supplied == "prefix" \in DOMAIN given \/ "suffix" \in DOMAIN given
        overridden == "prefix_zero" \in DOMAIN given
                        \/ "suffix_zero" \in DOMAIN given
    IN /\ own_prefix => StartsWith(numbered[k], given["prefix_zero"])
       /\ own_suffix => EndOf(numbered[k], given["suffix_zero"] \o nlines[k])
                          = given["suffix_zero"] \o nlines[k]
       /\ (~zero \/ (supplied /\ ~overridden)) =>
            /\ StartsWith(numbered[k], options["prefix"])
            /\ EndOf(numbered[k], options["suffix"] \o nlines[k])
                 = options["suffix"] \o nlines[k]

(***************************************************************************)
(* Specification of one call of any transform: a chainable tag called on   *)
(* a string or a template, wrap(n) or a numbering tag called on a text.    *)
(***************************************************************************)
InitApply ==
  /\ callee \in Chainables
  /\ arg = NoCall /\ vals = <<>> /\ result = NoCall
  /\ input \in PlainInputs \cup TemplateInputs
  /\ IdleIdentity /\ IdleWrap /\ IdleNumbering /\ IdleTags /\ IdleRoman /\ IdleCounter

InitTransforms == InitApply \/ InitWrap \/ InitNumbering

\* callee`...` or callee("..."): the chainable tag is applied to its input
Apply == input # NoCall /\ Invoke

NextTransforms == Apply \/ NextWrap \/ NextNumbering

SpecTransforms == InitTransforms /\ [][NextTransforms]_vars

(***************************************************************************)
(* Claims on all the transforms (SpecTransforms).                          *)
(***************************************************************************)
\* a text with no line that is not blank: empty, or white space only
IsBlankText(text) == \A i \in 1..Len(text) : IsSpace(text[i])

\* the text a chainable tag is called on
InputText ==
  IF input.x.t = "string" THEN input.x.s
  ELSE identity(input.x.strings, input.values)

\* a chainable tag was called on a blank text and has returned
BlankApplied ==
  /\ input # NoCall /\ result # NoCall
  /\ IsBlankText(InputText)

\* wrap(n) and the numbering tags return the empty string on a blank text,
\* and raise no error
BlankWrappedOrNumbered ==
  /\ wpc \notin {"TypeError", "RangeError"}
  /\ (wpc = "done" /\ IsBlankText(wtext)) => wout = Str(<<>>)
  /\ (npc = "done" /\ IsBlankText(ntext)) => nout = Str(<<>>)

\* C21: no transform raises on empty input: identity, paragraph, fold,
\* flush, outdent, indent(n), wrap(n) and numbering(options) each return
\* the empty string when applied to the empty string, to a template with
\* a single empty segment, or to a text made only of blank lines.
C21_EmptyInputGivesEmptyString ==
  /\ BlankApplied => result = Str(<<>>)
  /\ IsBlankText(wtext) /\ IsBlankText(ntext) => BlankWrappedOrNumbered

\* C21 as amended: each of them returns a string: the empty string, but
\* for identity, which returns the blank text as it is.
C21_EmptyInputGivesString ==
  /\ BlankApplied =>
       IF callee.tag.name = "identity" THEN result = Str(InputText)
       ELSE result = Str(<<>>)
  /\ IsBlankText(wtext) /\ IsBlankText(ntext) => BlankWrappedOrNumbered

C21_Witness ==
  /\ npc = "done" /\ ntext # <<>> /\ IsBlankText(ntext)
  /\ options["pad_width"] < 0
  /\ nout = Str(<<>>)

(***************************************************************************)
(* Specification of the roman schemes, applied to 0, 1, 2, ... in turn.    *)
(***************************************************************************)
InitRoman ==
  /\ rn = 0 /\ rupper = NoCall /\ rlower = NoCall /\ rlongest = 0
  /\ IdleChain /\ IdleIdentity /\ IdleWrap /\ IdleNumbering /\ IdleTags
  /\ IdleCounter

\* numbering-schemes.Roman(n) and numbering-schemes.roman(n)
Romanize ==
  /\ rupper = NoCall
  /\ rupper' = Str(numbering_schemes("Roman", rn))
  /\ rlower' = Str(numbering_schemes("roman", rn))
  /\ rlongest' = IF Len(numbering_schemes("roman", rn)) > rlongest
                 THEN Len(numbering_schemes("roman", rn)) ELSE rlongest
  /\ UNCHANGED <<rn, chain_vars, identity_vars, wrap_vars, numbering_vars,
                 tags_vars, counter_vars>>

\* the next number
NextNumber ==
  /\ rupper # NoCall /\ rn < MaxRoman
  /\ rn' = rn + 1 /\ rupper' = NoCall /\ rlower' = NoCall
  /\ UNCHANGED <<rlongest, chain_vars, identity_vars, wrap_vars,
                 numbering_vars, tags_vars, counter_vars>>

NextRoman == Romanize \/ NextNumber

SpecRoman == InitRoman /\ [][NextRoman]_vars

(***************************************************************************)
(* Claims on the roman schemes (SpecRoman).                                *)
(***************************************************************************)
\* the sums of the values of the ways to read the string as literals of
\* the table from the k-th on, in the order of the table
RECURSIVE LiteralSums(_, _)
LiteralSums(s, k) ==
  IF s = <<>> THEN {0}
  ELSE UNION {{literals(TRUE)[j].arabic + v :
                 v \in LiteralSums(Slice(s, Len(literals(TRUE)[j].roman)), j)} :
              j \in {i \in k..Len(literals(TRUE)) :
                       StartsWith(s, literals(TRUE)[i].roman)}}

\* some character occurs four times in a row
FourInARow(s) ==
  \E i \in 1..(Len(s) - 3) : s[i] = s[i + 1] /\ s[i] = s[i + 2] /\ s[i] = s[i + 3]

\* C22: for every n in 0..3999, roman(n) is a concatenation of literals of
\* the table in non-increasing order of value, whose values sum to n
\* (roman(0) is empty), no letter occurs more than three times in a row,
\* and the lower-case numeral is the upper-case one in lower case.
C22_RomanIsSubtractive ==
  (rupper # NoCall /\ rn <= 3999) =>
    /\ rn \in LiteralSums(rupper.s, 1)
    /\ rn = 0 => rupper.s = <<>>
    /\ ~FourInARow(rupper.s)
    /\ rlower.s = [i \in 1..Len(rupper.s) |-> ToLowerCase(rupper.s[i])]

C22_Witness ==
  /\ rn = 3999
  /\ rupper = Str(<<"M", "M", "M", "C", "M", "X", "C", "I", "X">>)
  /\ rlower = Str(<<"m", "m", "m", "c", "m", "x", "c", "i", "x">>)

\* C28: for the roman schemes with no sign (from >= 0, sign-all false)
\* and max in 0..3887, max-padding-width is the greatest length of
\* roman(k) for k in 0..max: the i-th breakpoint is the least number whose
\* numeral has i letters.
C28_RomanWidthIsGreatestLength ==
  rupper # NoCall =>
    /\ rn <= 3887 =>
         /\ max_padding_width(rn, 0, "roman", FALSE) = rlongest
         /\ max_padding_width(0, rn, "Roman", FALSE) = rlongest
    /\ \A i \in 1..Len(roman_breakpoints) :
         rn = roman_breakpoints[i] => Len(rupper.s) = i /\ rlongest = i

C28_Witness ==
  /\ rupper # NoCall /\ rn = 3887 /\ rlongest = 14
  /\ max_padding_width(0, rn, "roman", FALSE) = 14

(***************************************************************************)
(* Claims on the merge pass and on split (SpecWrap).                       *)
(***************************************************************************)
\* the normalized lines the reduction of wrap has gone through
Reduced ==
  SubSeq(wrap_lines(wtext), 1, Len(wrap_lines(wtext)) - Len(pending))

\* the reduction is under way or just over: no logical line is split yet
Reducing ==
  \/ wpc = "reduce"
  \/ wpc = "split" /\ physical = <<>> /\ depth = 0 /\ wtext # <<>>

\* the count of leading white space characters of a line
LeadingWidth(line) ==
  IF \A i \in 1..Len(line) : IsSpace(line[i]) THEN Len(line)
  ELSE (CHOOSE i \in 1..Len(line) :
          ~IsSpace(line[i]) /\ \A j \in 1..(i - 1) : IsSpace(line[j])) - 1

\* the line is merged into the logical line of the line before it: both
\* are non-blank and have the same indentation width
MergedWithPrevious(ls, i) ==
  /\ i > 1 /\ ls[i] # <<>> /\ ls[i - 1] # <<>>
  /\ LeadingWidth(ls[i]) = LeadingWidth(ls[i - 1])

\* the logical lines of the first i normalized lines, as the claim has them
RECURSIVE LogicalOf(_, _)
LogicalOf(ls, i) ==
  IF i = 0 THEN <<>>
  ELSE LET before == LogicalOf(ls, i - 1)
       IN IF ls[i] = <<>>
          THEN Append(before, [indent |-> 0, line |-> <<>>])
          ELSE IF MergedWithPrevious(ls, i)
               THEN [before EXCEPT ![Len(before)].line =
                       @ \o <<" ">> \o SubSeq(ls[i], LeadingWidth(ls[i]) + 1, Len(ls[i]))]
               ELSE Append(before, [indent |-> LeadingWidth(ls[i]), line |-> ls[i]])

\* C23: in the merge pass of wrap, two consecutive non-blank normalized
\* lines are merged into one logical line, joined by one space, the
\* leading white space of the second removed, if and only if they have
\* the same indentation width; a change of indentation starts a logical
\* line; a blank line becomes an empty logical line of indentation 0, and
\* the non-blank line after it always starts a logical line.
C23_MergeSameIndentation ==
  Reducing => logical = LogicalOf(Reduced, Len(Reduced))

C23_Witness ==
  /\ Reducing /\ pending = <<>>
  /\ logical = << [indent |-> 0, line |-> <<"a", " ", "a">>],
                  [indent |-> 0, line |-> <<>>],
                  [indent |-> 0, line |-> <<"a">>] >>

\* the next call of the reducer appends its line to the last logical line:
\* the line is not blank and has the indentation of the line before it
AboutToAppend ==
  /\ wpc = "reduce"
  /\ Len(Head(pending)) > indentation(Head(pending))
  /\ current_indentation = indentation(Head(pending))

\* C25: in the merge pass of wrap, whenever a line is appended to the
\* logical line before it, the buffer of logical lines is not empty and
\* its last entry is a non-blank logical line of that same indentation:
\* the append never reads an empty buffer nor extends a blank line.
C25_AppendHasPreviousLine ==
  /\ wpc # "TypeError"
  /\ AboutToAppend =>
       /\ logical # <<>>
       /\ logical[Len(logical)].line # <<>>
       /\ logical[Len(logical)].indent = current_indentation

C25_Witness ==
  /\ AboutToAppend /\ current_indentation = 1
  /\ logical = << [indent |-> 1, line |-> <<" ", "a">>] >>

\* the index (from 0) the claim has split(n) break the line at, -1 if none:
\* the last space at an index <= n outside the leading indentation, or
\* else the first space at an index >= n
BreakIndex(n, lwi) ==
  LET spaces == {i \in 0..(Len(lwi.line) - 1) : lwi.line[i + 1] = " "}
      before == {i \in spaces : i <= n /\ i >= lwi.indent}
      after == {i \in spaces : i >= n}
  IN IF before # {} THEN CHOOSE i \in before : \A j \in before : j <= i
     ELSE IF after # {} THEN CHOOSE i \in after : \A j \in after : i <= j
     ELSE -1

\* C24: split(n) breaks a logical line longer than n at the last space at
\* an index <= n that is not inside the leading indentation, or else at
\* the first space at an index >= n, or else returns the line whole; the
\* space at the break is dropped and the rest is split again with the
\* indentation of the logical line in front, so that every continuation
\* has the indentation of its logical line.
C24_SplitBreaksAtSpace ==
  /\ (wpc = "split" /\ logical # <<>> /\ Len(Head(logical).line) > width) =>
       LET lwi == Head(logical)
       IN /\ split_index(width, lwi) = BreakIndex(width, lwi)
          /\ split_returns(width, lwi) <=> BreakIndex(width, lwi) < 0
  /\ (wpc \in {"split", "RangeError"} /\ depth > 0) =>
       LET i == BreakIndex(width, caller)
           rest == Head(logical)
       IN /\ i >= 0
          /\ physical[Len(physical)] = SubSeq(caller.line, 1, i)
          /\ rest.indent = caller.indent
          /\ rest.line = Spaces(caller.indent)
                            \o SubSeq(caller.line, i + 2, Len(caller.line))
          /\ LeadingWidth(rest.line) = caller.indent

\* the words of a text: its longest runs of characters other than white
\* space, in order
RECURSIVE WordsOf(_, _)
WordsOf(text, word) ==
  IF text = <<>> THEN (IF word = <<>> THEN <<>> ELSE <<word>>)
  ELSE IF IsSpace(text[1])
       THEN (IF word = <<>> THEN <<>> ELSE <<word>>) \o WordsOf(Tail(text), <<>>)
       ELSE WordsOf(Tail(text), Append(word, text[1]))

\* the deepest indentation of the lines of the text wrap is applied to
DeepestIndentation ==
  LET widths == {LeadingWidth(wrap_lines(wtext)[i]) : i \in 1..Len(wrap_lines(wtext))}
  IN IF widths = {} THEN 0 ELSE CHOOSE w \in widths : \A v \in widths : v <= w

\* C30: wrap never loses, splits or reorders words: for every text and
\* every width n that is at least the deepest indentation of the text, the
\* words of what wrap(n) returns are the words of the text, in order.
C30_WrapKeepsWords ==
  (wpc = "done" /\ width >= DeepestIndentation) =>
    WordsOf(wout.s, <<>>) = WordsOf(wtext, <<>>)

C30_Witness ==
  /\ wpc = "done" /\ width = 1
  /\ wtext = <<"a", " ", "a", "\n", "a">>
  /\ wout = Str(<<"a", "\n", "a", "\n", "a">>)

(***************************************************************************)
(* Claims on indent after indent (SpecTags).                               *)
(***************************************************************************)
\* indent(-n) was applied to what indent(n) returned, for some n >= 0
IndentUndone ==
  /\ Len(tapplied) = 2 /\ Returned("indent")
  /\ tapplied[1].tag.name = "indent"
  /\ tapplied[1].tag.n >= 0
  /\ tapplied[2].tag.n = -tapplied[1].tag.n

\* C29: indent(-n) undoes indent(n): for every n >= 0 and every string s,
\* indent(-n)(indent(n))(s) is indent(0)(s), the normalized lines of s
\* joined by newlines, also when s has blank lines or lines with no
\* indentation.
C29_IndentUndone ==
  IndentUndone => tafter.s = Join(text_lines(ttext), <<"\n">>)

C29_Witness ==
  /\ IndentUndone /\ tapplied[1].tag.n = 1
  /\ ttext = <<"a", "\n", "\n", " ", "a">>
  /\ tbefore.s = <<" ", "a", "\n", " ", "\n", " ", " ", "a">>
  /\ tafter.s = <<"a", "\n", "\n", " ", "a">>

(***************************************************************************)
(* Specification of a counter: it is built from options, then its getters  *)
(* next, reset, raw and pad are read in any order.                         *)
(***************************************************************************)
\* the options a counter is built from
CounterOptions ==
  {a @@ b @@ c :
     a \in {<<>>} \cup {("number_from" :> f) : f \in (-MaxFrom)..MaxFrom},
     b \in {<<>>, ("numbering_scheme" :> "roman")},
     c \in {<<>>, ("pad_width" :> 3)}}

\* new counter(options)
InitCounter ==
  /\ given \in CounterOptions /\ earlier = NoCall
  /\ options = counter_options(given)
  /\ index = counter_new(given)
  /\ ntext = <<>> /\ npc = "counter" /\ nlines = <<>>
  /\ fields = <<>> /\ numbered = <<>> /\ nout = NoCall
  /\ cops = <<>> /\ cread = NoCall
  /\ IdleChain /\ IdleIdentity /\ IdleWrap /\ IdleTags /\ IdleRoman

\* one of the getters is read: what happens to the counter, what is returned
Read(getter, c, returned) ==
  /\ npc = "counter" /\ Len(cops) < MaxOps
  /\ cops' = Append(cops, getter)
  /\ index' = c
  /\ cread' = returned
  /\ UNCHANGED <<given, earlier, options, ntext, npc, nlines, fields, numbered,
                 nout, chain_vars, identity_vars, wrap_vars, tags_vars,
                 roman_vars>>

\* counter.next: returns the counter
CounterNext == Read("next", next(index), cread)

\* counter.reset: returns the counter
CounterReset == Read("reset", reset(options, index), cread)

\* counter.raw: returns a string
CounterRaw == Read("raw", index, Str(counter_raw(index)))

\* counter.pad: returns a string
CounterPad == Read("pad", index, Str(pad(options, index)))

NextCounter == CounterNext \/ CounterReset \/ CounterRaw \/ CounterPad

SpecCounter == InitCounter /\ [][NextCounter]_vars

(***************************************************************************)
(* Claims on the counter (SpecCounter).                                    *)
(***************************************************************************)
\* how many times next was read since reset was last read, or since the
\* counter was built
RECURSIVE NextsSinceReset(_)
NextsSinceReset(ops) ==
  IF ops = <<>> \/ ops[Len(ops)] = "reset" THEN 0
  ELSE (IF ops[Len(ops)] = "next" THEN 1 ELSE 0)
       + NextsSinceReset(SubSeq(ops, 1, Len(ops) - 1))

\* C27: whatever the sequence of next and reset, the value of a counter
\* built with the starting number f is f plus the number of next since
\* the last reset, or since it was built: next adds exactly 1, reset sets
\* the value back to f, raw and pad leave it as it is.
C27_ValueCountsNexts ==
  npc = "counter" => index.value = NumberFrom + NextsSinceReset(cops)

C27_Witness ==
  /\ npc = "counter" /\ NumberFrom = -2
  /\ cops = <<"next", "pad", "reset", "next">>
  /\ index.value = -1

(***************************************************************************)
(* Specification of a numbering tag called twice: numbering(options) is    *)
(* kept, applied to a text, then applied to another text.                  *)
(***************************************************************************)
\* the options the tag called twice is made with
RepeatedOptions ==
  {a @@ b :
     a \in {<<>>} \cup {("number_from" :> f) : f \in (-MaxFrom)..MaxFrom},
     b \in {<<>>, ("numbering_scheme" :> "roman")}}

InitRepeated ==
  /\ given \in RepeatedOptions /\ earlier = NoCall
  /\ options = given
  /\ ntext \in {LinesText(n) : n \in 0..MaxLines}
  /\ npc = "start" /\ nlines = <<>> /\ index = NoCall
  /\ fields = <<>> /\ numbered = <<>> /\ nout = NoCall
  /\ IdleChain /\ IdleIdentity /\ IdleWrap /\ IdleTags /\ IdleRoman /\ IdleCounter

\* the same tag is called on another text: the options object is the one
\* the call before has left
NumberingAgain ==
  /\ npc = "done" /\ earlier = NoCall
  /\ earlier' = [options |-> options, length |-> Len(nlines)]
  /\ ntext' \in {LinesText(n) : n \in 0..MaxLines}
  /\ npc' = "start" /\ nlines' = <<>> /\ index' = NoCall
  /\ fields' = <<>> /\ numbered' = <<>> /\ nout' = NoCall
  /\ UNCHANGED <<given, options, chain_vars, identity_vars, wrap_vars,
                 tags_vars, roman_vars, counter_vars>>

NextRepeated == NextNumbering \/ NumberingAgain

SpecRepeated == InitRepeated /\ [][NextRepeated]_vars

(***************************************************************************)
(* Claims on a numbering tag called twice (SpecRepeated).                  *)
(***************************************************************************)
\* C26: a numbering tag resolves its defaults and computes its pad width
\* on its first call only, and keeps them in the options object: a later
\* call of the same tag, on a text with another number of lines, leaves
\* the pad width as it was and pads with it.
C26_PadWidthKeptFromFirstCall ==
  (earlier # NoCall /\ npc \in {"map", "join", "done"}) =>
    /\ options = earlier.options
    /\ \A k \in 1..Len(fields) :
         Len(fields[k]) >= earlier.options["pad_width"]

====
